---- MODULE Spec2Model ----
(***************************************************************************)
(* Market Cycle Monitor (src/app.py).                                      *)
(*                                                                         *)
(* Two state machines are modelled:                                        *)
(*   Spec      - one call of get_data(ticker): the two fetches, the price  *)
(*               filter, the rolling geometric mean, the age column, the   *)
(*               row filter with dropna, the fair-value model, the index.  *)
(*   SpecChart - the page once main has rendered the chart: the figure of  *)
(*               create_chart, its two buttons, and the plotly_relayout    *)
(*               handler with its 50 ms timer of st_plotly_autoscaling.    *)
(*                                                                         *)
(* Timestamps are integers counted in ticks, TicksPerDay ticks to a day.   *)
(* A cell of a data frame is a record [kind, v]; real-valued results that  *)
(* integer arithmetic cannot give (logarithms, powers) are kept as         *)
(* symbolic cells naming what they were computed from.                     *)
(***************************************************************************)
EXTENDS Integers, Sequences, FiniteSets, TLC

VARIABLES
    \* ---- get_data ----
    ticker,      \* the argument of get_data
    pc,          \* position inside get_data
    requests,    \* the sources requested so far, in order
    primaryOut,  \* what the primary source answered: "none" before the request
    fallbackOut, \* what the fallback source answered: "none" before the request
    df,          \* the local data frame df, a sequence of rows
    raw,         \* df as the source delivered it (before line 50)
    cleaned,     \* df as it stood right after the price filter of line 51
    fit,         \* what linregress was given and what it answered
    outcome,     \* "running", "returned" or "raised"
    \* ---- the rendered page ----
    page,        \* "chart" once the figure is rendered
    traces,      \* graphDiv.data: a sequence of traces
    axisVisible, \* layout.<axis>.visible for the four Y axes
    xaxisRange,  \* graphDiv.layout.xaxis.range
    yRange,      \* layout.<axis>.range as last set by the handler
    events,      \* plotly_relayout events emitted and not yet handled
    timers,      \* the timeouts that are pending in the browser
    relayoutTimer, \* the JS variable relayoutTimer (0 models undefined)
    nextTimer,   \* the id the next setTimeout returns
    jsError,     \* TRUE once a timer callback threw
    userEvents,  \* number of user gestures so far
    computations, \* timer callbacks run since the handler last set a timer
    burst,       \* events that set a timer since the last timer callback
    userComputations, \* timer callbacks run since a user event last set a timer
    relayouts,   \* Plotly.relayout calls issued since the last user gesture
    lastFire     \* the last timer callback: what it captured, read and wrote

dataVars == <<ticker, pc, requests, primaryOut, fallbackOut, df, raw, cleaned, fit, outcome>>
chartVars == <<page, traces, axisVisible, xaxisRange, yRange, events, timers,
               relayoutTimer, nextTimer, jsError, userEvents, computations,
               burst, userComputations, relayouts, lastFire>>
vars == <<dataVars, chartVars>>

----------------------------------------------------------------------------
(* Bounds of the model *)

TicksPerDay == 2   \* resolution of a timestamp
MaxExtra == 11     \* longest series: W + MaxExtra entries
MaxPrice == 3      \* prices cycle through 1..MaxPrice

(* Program constants *)

W == 200           \* rolling(200)
GenesisDay == 14247 \* pd.Timestamp("2009-01-03"), in days since 1970-01-01

Genesis == GenesisDay * TicksPerDay

----------------------------------------------------------------------------
(* Cells and rows *)

Num(n) == [kind |-> "num", v |-> n]
NaN == [kind |-> "nan", v |-> 0]
Absent == [kind |-> "absent", v |-> 0]     \* the column does not exist yet
IsNaN(c) == c.kind = "nan"
Defined(c) == c.kind \notin {"nan", "absent"}

\* A row as a source delivers it: index value ts, column Close.  origin
\* records the source and pos the row's ordinal in the cleaned frame; both
\* only serve to state properties.
Row(ts, close, origin) ==
    [ts |-> ts, Close |-> close, origin |-> origin, pos |-> 0,
     GeoMean |-> Absent, Days |-> Absent, Predicted |-> Absent, AHR999 |-> Absent]

----------------------------------------------------------------------------
(* What a source can deliver *)

Tickers == {"BTC-USD", "ETH-USD"}

Lens == {1, 2, 10, 11, W - 1, W, W + 1, W + MaxExtra - 2, W + MaxExtra - 1, W + MaxExtra}

\* first day of a series, relative to the genesis date
Starts == {1 - W, 1}

Defects == {"none", "dup", "unsorted", "nonpos", "missing", "allbad", "intraday"}

PriceAt(i) == 1 + (i % MaxPrice)

\* Daily history of n entries beginning `start` days after genesis.
\*   dup:      entry 2 repeats the timestamp of entry 1
\*   unsorted: entries 1 and 2 arrive in the opposite order
\*   nonpos:   entry 1 has price 0, entry 2 a negative price
\*   missing:  entry 1 has no price (null in the JSON, NaN in the frame)
\*   allbad:   no entry has a positive price
\*   intraday: the last entry is stamped during the day, not at midnight
MakeSeries(n, start, defect, origin) ==
    [i \in 1..n |->
        LET day == CASE defect = "dup" /\ i = 2 -> start
                     [] defect = "unsorted" /\ i = 1 -> start + 1
                     [] defect = "unsorted" /\ i = 2 -> start
                     [] OTHER -> start + i - 1
            tick == IF defect = "intraday" /\ i = n THEN 1 ELSE 0
            close == CASE defect = "nonpos" /\ i = 1 -> Num(0)
                       [] defect = "nonpos" /\ i = 2 -> Num(-1)
                       [] defect = "missing" /\ i = 1 -> NaN
                       [] defect = "allbad" /\ i % 3 = 0 -> NaN
                       [] defect = "allbad" /\ i % 3 = 1 -> Num(0)
                       [] defect = "allbad" -> Num(-1)
                       [] OTHER -> Num(PriceAt(i))
        IN Row(Genesis + day * TicksPerDay + tick, close, origin)]

SourceAnswers(origin) ==
    {[kind |-> "raise", rows |-> <<>>], [kind |-> "empty", rows |-> <<>>]}
    \cup {[kind |-> "data", rows |-> MakeSeries(n, s, d, origin)] :
            n \in Lens, s \in Starts, d \in Defects}

----------------------------------------------------------------------------
(* get_data, lines 25-64 *)

\* line 38: if df.empty
NeedFallbackAlways(d) == TRUE
NeedFallback(d) == Len(d) = 0

\* line 51: pd.to_numeric(df['Close'], errors='coerce') > 0
ToNumeric(c) == IF c.kind = "num" THEN c ELSE NaN
PriceFilter(d) == SelectSeq(d, LAMBDA r : ToNumeric(r.Close).kind = "num" /\ ToNumeric(r.Close).v > 0)

\* line 53: np.exp(np.log(Close).rolling(200).mean()).  rolling(200) has
\* min_periods = 200: NaN at the first 199 rows, then the mean over rows
\* lo..hi.  The value is kept as the window it is the geometric mean of.
Rolling(d) ==
    [i \in 1..Len(d) |->
        [d[i] EXCEPT !.pos = i,
                     !.GeoMean = IF i < W THEN NaN
                                 ELSE [kind |-> "geomean", lo |-> i - W + 1, hi |-> i]]]

\* line 54: (df.index - pd.Timestamp("2009-01-03")).days, a floor division
DaysOf(ts) == (ts - Genesis) \div TicksPerDay
AgeDays(d) == [i \in 1..Len(d) |-> [d[i] EXCEPT !.Days = Num(DaysOf(d[i].ts))]]

\* line 55: df[df['Days'] > 0].dropna()
HasNaN(r) == IsNaN(r.Close) \/ IsNaN(r.GeoMean) \/ IsNaN(r.Days)
RowFilter(d) == SelectSeq(SelectSeq(d, LAMBDA r : r.Days.v > 0), LAMBDA r : ~HasNaN(r))

\* line 57: "BTC" in ticker
IsBTCTicker(t) == t = "BTC-USD"

\* line 60: scipy.stats.linregress(x, y) on log10(Days), log10(Close).
\* Empty input raises ValueError; identical x values on several points raise
\* ValueError; a single point gives slope 0/0 = nan; otherwise a fit.
LinRegress(d) ==
    LET xs == {d[i].Days.v : i \in 1..Len(d)}
    IN  [kind |-> CASE Len(d) = 0 -> "raise"
                    [] Len(d) > 1 /\ Cardinality(xs) = 1 -> "raise"
                    [] Len(d) = 1 -> "nan"
                    [] OTHER -> "fit",
         n |-> Len(d),
         points |-> {d[i].pos : i \in 1..Len(d)}]

NoFit == [kind |-> "none", n |-> 0, points |-> {}]

\* line 58: 10 ** (5.84 * log10(Days) - 17.01)
PredictFixed(r) == [kind |-> "powerlaw", coef |-> "fixed", days |-> r.Days.v]
\* line 61: 10 ** (intercept + slope * log10(Days))
PredictFit(r, f) == IF f.kind = "nan" THEN NaN
                    ELSE [kind |-> "powerlaw", coef |-> "fitted", days |-> r.Days.v]

\* line 63: (Close / GeoMean) * (Close / Predicted)
Ahr999(r) == IF Defined(r.GeoMean) /\ Defined(r.Predicted)
             THEN [kind |-> "ratio", pos |-> r.pos] ELSE NaN

DataInit ==
    /\ ticker \in Tickers
    /\ pc = "primary"
    /\ requests = <<>>
    /\ primaryOut = "none"
    /\ fallbackOut = "none"
    /\ df = <<>>
    /\ raw = <<>>
    /\ cleaned = <<>>
    /\ fit = NoFit
    /\ outcome = "running"

\* lines 26-36: the primary source; any exception is swallowed
FetchPrimary ==
    /\ pc = "primary"
    /\ \E a \in SourceAnswers("primary") :
          /\ primaryOut' = a.kind
          /\ df' = IF a.kind = "data" THEN a.rows ELSE <<>>
    /\ requests' = Append(requests, "primary")
    /\ pc' = IF NeedFallback(df') THEN "fallback" ELSE "check"
    /\ raw' = df'
    /\ UNCHANGED <<ticker, fallbackOut, cleaned, fit, outcome>>
    /\ UNCHANGED chartVars

\* lines 38-46: the fallback source; an exception returns an empty frame
FetchFallback ==
    /\ pc = "fallback"
    /\ \E a \in SourceAnswers("fallback") :
          /\ fallbackOut' = a.kind
          /\ df' = IF a.kind = "data" THEN a.rows ELSE <<>>
          /\ IF a.kind = "raise"
             THEN pc' = "done" /\ outcome' = "returned"
             ELSE pc' = "check" /\ outcome' = outcome
    /\ requests' = Append(requests, "fallback")
    /\ raw' = df'
    /\ UNCHANGED <<ticker, primaryOut, cleaned, fit>>
    /\ UNCHANGED chartVars

\* line 48: if df.empty: return df
ReturnEmpty ==
    /\ pc = "check"
    /\ Len(df) = 0
    /\ pc' = "done"
    /\ outcome' = "returned"
    /\ UNCHANGED <<ticker, requests, primaryOut, fallbackOut, df, raw, cleaned, fit>>
    /\ UNCHANGED chartVars

\* lines 50-51
Clean ==
    /\ pc = "check"
    /\ Len(df) > 0
    /\ df' = PriceFilter(df)
    /\ cleaned' = df'
    /\ pc' = "rolling"
    /\ UNCHANGED <<ticker, requests, primaryOut, fallbackOut, raw, fit, outcome>>
    /\ UNCHANGED chartVars

\* lines 53-55
Annotate ==
    /\ pc = "rolling"
    /\ df' = RowFilter(AgeDays(Rolling(df)))
    /\ pc' = "model"
    /\ UNCHANGED <<ticker, requests, primaryOut, fallbackOut, raw, cleaned, fit, outcome>>
    /\ UNCHANGED chartVars

\* lines 57-58 and 63-64
ModelFixed ==
    /\ pc = "model"
    /\ IsBTCTicker(ticker)
    /\ df' = [i \in 1..Len(df) |->
                LET r == [df[i] EXCEPT !.Predicted = PredictFixed(df[i])]
                IN [r EXCEPT !.AHR999 = Ahr999(r)]]
    /\ pc' = "done"
    /\ outcome' = "returned"
    /\ UNCHANGED <<ticker, requests, primaryOut, fallbackOut, raw, cleaned, fit>>
    /\ UNCHANGED chartVars

\* lines 59-64
ModelRegression ==
    /\ pc = "model"
    /\ ~IsBTCTicker(ticker)
    /\ fit' = LinRegress(df)
    /\ IF fit'.kind = "raise"
       THEN /\ outcome' = "raised"
            /\ df' = df
       ELSE /\ outcome' = "returned"
            /\ df' = [i \in 1..Len(df) |->
                        LET r == [df[i] EXCEPT !.Predicted = PredictFit(df[i], fit')]
                        IN [r EXCEPT !.AHR999 = Ahr999(r)]]
    /\ pc' = "done"
    /\ UNCHANGED <<ticker, requests, primaryOut, fallbackOut, raw, cleaned>>
    /\ UNCHANGED chartVars

----------------------------------------------------------------------------
(* The page: create_chart (lines 67-144) and the script of                 *)
(* st_plotly_autoscaling (lines 172-264)                                   *)

MaxRows == 2         \* longest frame handed to create_chart
MaxUserEvents == 3   \* user gestures in one run
MaxRelayouts == 3    \* programmatic relayouts followed after one gesture

YAxes == {"yaxis", "yaxis2", "yaxis3", "yaxis4"}

\* A frame get_data returned, reduced to the columns the chart plots.
ChartFrame(n) == [i \in 1..n |-> [ts |-> i, Close |-> PriceAt(i), Predicted |-> i + 1, AHR999 |-> i]]
Column(d, c) == [i \in 1..Len(d) |-> d[i][c]]
Index(d) == [i \in 1..Len(d) |-> d[i].ts]

Trace(name, x, y, visible, yaxis) ==
    [name |-> name, x |-> x, y |-> y, visible |-> visible, yaxis |-> yaxis]

\* lines 74-77: traces 0, 1, 2, only when df_btc is not empty
BtcTraces(d) ==
    IF Len(d) = 0 THEN <<>>
    ELSE << Trace("BTC Price", Index(d), Column(d, "Close"), TRUE, "yaxis"),
            Trace("BTC Model", Index(d), Column(d, "Predicted"), TRUE, "yaxis"),
            Trace("BTC Index", Index(d), Column(d, "AHR999"), TRUE, "yaxis2") >>

\* lines 80-83: traces 3, 4, 5, only when df_eth is not empty
EthTraces(d) ==
    IF Len(d) = 0 THEN <<>>
    ELSE << Trace("ETH Price", Index(d), Column(d, "Close"), FALSE, "yaxis3"),
            Trace("ETH Model", Index(d), Column(d, "Predicted"), FALSE, "yaxis3"),
            Trace("ETH Index", Index(d), Column(d, "AHR999"), FALSE, "yaxis4") >>

\* lines 67-144: the figure's traces
CreateChart(dfBtc, dfEth) == BtcTraces(dfBtc) \o EthTraces(dfEth)

\* lines 139-142: yaxis and yaxis2 are visible by default, yaxis3 and yaxis4 are not
InitialAxes == [a \in YAxes |-> a \in {"yaxis", "yaxis2"}]

\* lines 94-104 and 106-116: the "visible" array and the axis flags of a button
BtnBtcVisible == <<TRUE, TRUE, TRUE, FALSE, FALSE, FALSE>>
BtnEthVisible == <<FALSE, FALSE, FALSE, TRUE, TRUE, TRUE>>
BtnBtcAxes == [a \in YAxes |-> a \in {"yaxis", "yaxis2"}]
BtnEthAxes == [a \in YAxes |-> a \in {"yaxis3", "yaxis4"}]

\* method "update": the array is applied to the traces that exist
ApplyVisible(ts, arr) == [i \in 1..Len(ts) |-> [ts[i] EXCEPT !.visible = arr[i]]]

(* JavaScript values *)
JsNum(n) == [t |-> "num", n |-> n]
JsArr(a) == [t |-> "arr", a |-> a]
JsTrue == [t |-> "bool", b |-> TRUE]
Undefined == [t |-> "undefined"]
Truthy(c) == \/ c.t = "arr"
             \/ c.t = "num" /\ c.n # 0
             \/ c.t = "bool" /\ c.b
\* eventdata[key]
Get(e, k) == IF k \in DOMAIN e.data THEN e.data[k] ELSE Undefined

XRanges == {<<1, 1>>, <<1, MaxRows>>, <<MaxRows + 1, MaxRows + 2>>}
YBounds == {0, 1}

\* The eventdata Plotly emits for a user gesture, and the X range the
\* gesture leaves in layout.xaxis.range.
\*   zoom/pan along X: 'xaxis.range[0]', 'xaxis.range[1]'
\*   range slider:     'xaxis.range'
\*   double click:     'xaxis.autorange'
\*   drag of a Y axis: '<axis>.range[0]', '<axis>.range[1]'
\*   pan in the plot:  the X keys and the Y keys of the price axes
UserEventData(xr) ==
    {[k \in {"xaxis.range[0]", "xaxis.range[1]"} |->
         IF k = "xaxis.range[0]" THEN JsNum(xr[1]) ELSE JsNum(xr[2])],
     [k \in {"xaxis.range"} |-> JsArr(xr)],
     [k \in {"xaxis.autorange"} |-> JsTrue]}
YEventData(xr) ==
    {[k \in {a \o ".range[0]", a \o ".range[1]"} |->
         IF k = a \o ".range[0]" THEN JsNum(lo) ELSE JsNum(lo + 1)] :
         a \in YAxes, lo \in YBounds}
    \cup
    {[k \in {"xaxis.range[0]", "xaxis.range[1]", "yaxis.range[0]", "yaxis.range[1]",
             "yaxis3.range[0]", "yaxis3.range[1]"} |->
         CASE k = "xaxis.range[0]" -> JsNum(xr[1])
           [] k = "xaxis.range[1]" -> JsNum(xr[2])
           [] k \in {"yaxis.range[0]", "yaxis3.range[0]"} -> JsNum(lo)
           [] OTHER -> JsNum(lo + 1)] : lo \in YBounds}

\* line 183: the event was caused by a Y-axis change
YGuard(e) ==
    \/ Truthy(Get(e, "yaxis.range[0]"))
    \/ Truthy(Get(e, "yaxis3.range[0]"))
    \/ Truthy(Get(e, "yaxis2.range[0]"))

\* line 189: !xrange || eventdata["xaxis.autorange"]
XGuard(e, xrange) == ~Truthy(xrange) \/ Truthy(Get(e, "xaxis.autorange"))

\* line 192: clearTimeout(relayoutTimer)
ClearTimeout(ts, id) == {t \in ts : t.id # id}

\* line 199: graphDiv.data[0].visible !== false
IsBTC(ts) == ts[1].visible # FALSE
\* lines 203-207, with traces counted from 1
PriceTraceIdx(ts) == IF IsBTC(ts) THEN 1 ELSE 4
IndexTraceIdx(ts) == IF IsBTC(ts) THEN 3 ELSE 6
YPriceName(ts) == IF IsBTC(ts) THEN "yaxis" ELSE "yaxis3"

\* lines 210-229: getRange(traceIndex) for the X window xr; null or [min, max]
SetMin(S) == CHOOSE m \in S : \A y \in S : m <= y
SetMax(S) == CHOOSE m \in S : \A y \in S : m >= y
GetRange(ts, traceIndex, xr) ==
    LET tr == ts[traceIndex]
        ys == {tr.y[i] : i \in {j \in 1..Len(tr.x) :
                                  tr.x[j] >= xr[1] /\ tr.x[j] <= xr[2] /\ tr.y[j] > 0}}
    IN IF ys = {} THEN [null |-> TRUE, min |-> 0, max |-> 0]
       ELSE [null |-> FALSE, min |-> SetMin(ys), max |-> SetMax(ys)]

\* lines 239-243: [log10(min) - pad, log10(max) + pad], kept as the pair it pads
PaddedLogRange(r) == [t |-> "arr", a |-> <<r.min, r.max>>, scale |-> "log10 padded"]

\* The eventdata of the plotly_relayout event that Plotly.relayout(graphDiv,
\* update) emits: the keys of update as they were passed (line 243:
\* yPriceName + '.range'), and '<axis>.autorange': false, which Plotly adds
\* when a range is set.
RelayoutEventData(name, range) ==
    [k \in {name \o ".range", name \o ".autorange"} |->
        IF k = name \o ".range" THEN range ELSE [t |-> "bool", b |-> FALSE]]

\* The assets whose three traces are in the figure and all shown
VisibleAssets(ts) ==
    {a \in {"BTC", "ETH"} :
        LET idx == IF a = "BTC" THEN 1..3 ELSE 4..6
        IN \A i \in idx : i <= Len(ts) /\ ts[i].visible = TRUE}
ShownTraces(ts) == {i \in 1..Len(ts) : ts[i].visible = TRUE}
PriceAxisOf(a) == IF a = "BTC" THEN "yaxis" ELSE "yaxis3"
AxesOf(a) == IF a = "BTC" THEN {"yaxis", "yaxis2"} ELSE {"yaxis3", "yaxis4"}

NoFire == [id |-> 0, xrange |-> <<0, 0>>, newest |-> TRUE, burst |-> 0, read |-> {},
           wrote |-> {}, visibleAssets |-> {}]

DataIdle ==
    /\ ticker = "none"
    /\ pc = "idle"
    /\ requests = <<>>
    /\ primaryOut = "none"
    /\ fallbackOut = "none"
    /\ df = <<>>
    /\ raw = <<>>
    /\ cleaned = <<>>
    /\ fit = NoFit
    /\ outcome = "running"

ChartIdle ==
    /\ page = "none"
    /\ traces = <<>>
    /\ axisVisible = InitialAxes
    /\ xaxisRange = Undefined
    /\ yRange = [a \in YAxes |-> Undefined]
    /\ events = <<>>
    /\ timers = {}
    /\ relayoutTimer = 0
    /\ nextTimer = 1
    /\ jsError = FALSE
    /\ userEvents = 0
    /\ computations = 0
    /\ burst = 0
    /\ userComputations = 0
    /\ relayouts = 0
    /\ lastFire = NoFire

\* lines 273-278 and 175: btc_df is not empty, the figure is built and plotted;
\* Plotly writes the autoranged X range back into layout.xaxis.range
ChartInit ==
    /\ DataIdle
    /\ page = "chart"
    /\ \E nb \in 1..MaxRows, ne \in 0..MaxRows :
          traces = CreateChart(ChartFrame(nb), ChartFrame(ne))
    /\ axisVisible = InitialAxes
    /\ xaxisRange = JsArr(<<1, MaxRows>>)
    /\ yRange = [a \in YAxes |-> Undefined]
    /\ events = <<>>
    /\ timers = {}
    /\ relayoutTimer = 0
    /\ nextTimer = 1
    /\ jsError = FALSE
    /\ userEvents = 0
    /\ computations = 0
    /\ burst = 0
    /\ userComputations = 0
    /\ relayouts = 0
    /\ lastFire = NoFire

\* The browser runs one callback at a time: a gesture or a timer is taken
\* only when the event emitted before it has been handled.  An exception in
\* a timer callback ends that callback only; the page goes on.
Quiet == page = "chart" /\ events = <<>>

\* lines 94-104: the BTC button
PressBTC ==
    /\ Quiet
    /\ traces' = ApplyVisible(traces, BtnBtcVisible)
    /\ axisVisible' = BtnBtcAxes
    /\ UNCHANGED <<page, xaxisRange, yRange, events, timers, relayoutTimer, nextTimer,
                   jsError, userEvents, computations, burst, userComputations, relayouts,
                   lastFire>>
    /\ UNCHANGED dataVars

\* lines 106-116: the ETH button
PressETH ==
    /\ Quiet
    /\ traces' = ApplyVisible(traces, BtnEthVisible)
    /\ axisVisible' = BtnEthAxes
    /\ UNCHANGED <<page, xaxisRange, yRange, events, timers, relayoutTimer, nextTimer,
                   jsError, userEvents, computations, burst, userComputations, relayouts,
                   lastFire>>
    /\ UNCHANGED dataVars

\* A zoom, pan, slider move or double click that changes the X range
GestureX ==
    /\ Quiet
    /\ userEvents < MaxUserEvents
    /\ \E xr \in XRanges : \E d \in UserEventData(xr) :
          /\ xaxisRange' = JsArr(xr)
          /\ events' = <<[data |-> d, by |-> "user"]>>
    /\ userEvents' = userEvents + 1
    /\ relayouts' = 0
    /\ UNCHANGED <<page, traces, axisVisible, yRange, timers, relayoutTimer, nextTimer,
                   jsError, computations, burst, userComputations, lastFire>>
    /\ UNCHANGED dataVars

\* A drag of a Y axis, or a pan inside the plot that moves X and Y
GestureY ==
    /\ Quiet
    /\ userEvents < MaxUserEvents
    /\ \E xr \in XRanges : \E d \in YEventData(xr) :
          /\ xaxisRange' = IF "xaxis.range[0]" \in DOMAIN d THEN JsArr(xr) ELSE xaxisRange
          /\ events' = <<[data |-> d, by |-> "user"]>>
    /\ userEvents' = userEvents + 1
    /\ relayouts' = 0
    /\ UNCHANGED <<page, traces, axisVisible, yRange, timers, relayoutTimer, nextTimer,
                   jsError, computations, burst, userComputations, lastFire>>
    /\ UNCHANGED dataVars

\* lines 181-195 and 262: the plotly_relayout handler
OnRelayout ==
    /\ page = "chart"
    /\ events # <<>>
    /\ LET eventdata == Head(events)
           xrange == xaxisRange
       IN IF YGuard(eventdata) \/ XGuard(eventdata, xrange)
          THEN UNCHANGED <<timers, relayoutTimer, nextTimer, computations, burst,
                           userComputations>>
          ELSE /\ timers' = ClearTimeout(timers, relayoutTimer)
                              \cup {[id |-> nextTimer, xrange |-> xrange.a]}
               /\ relayoutTimer' = nextTimer
               /\ nextTimer' = nextTimer + 1
               /\ computations' = 0
               /\ burst' = burst + 1
               /\ userComputations' = IF eventdata.by = "user" THEN 0 ELSE userComputations
    /\ events' = Tail(events)
    /\ UNCHANGED <<page, traces, axisVisible, xaxisRange, yRange, jsError, userEvents,
                   relayouts, lastFire>>
    /\ UNCHANGED dataVars

\* lines 193-261: the timer callback
TimerFire ==
    /\ Quiet
    /\ relayouts < MaxRelayouts
    /\ \E tm \in timers :
          LET pIdx == PriceTraceIdx(traces)
              iIdx == IndexTraceIdx(traces)
              fire == [id |-> tm.id, xrange |-> tm.xrange,
                       newest |-> (tm.id = relayoutTimer), burst |-> burst,
                       read |-> {pIdx, iIdx}, wrote |-> {},
                       visibleAssets |-> VisibleAssets(traces)]
          IN /\ timers' = timers \ {tm}
             /\ computations' = computations + 1
             /\ burst' = 0
             /\ userComputations' = userComputations + 1
             /\ IF pIdx > Len(traces) \/ iIdx > Len(traces)
                THEN \* graphDiv.data[traceIndex] is undefined: TypeError
                     /\ jsError' = TRUE
                     /\ lastFire' = fire
                     /\ UNCHANGED <<yRange, events, relayouts>>
                ELSE LET priceRange == GetRange(traces, pIdx, tm.xrange)
                         name == YPriceName(traces)
                     IN /\ jsError' = jsError
                        /\ IF priceRange.null
                           THEN /\ UNCHANGED <<yRange, events, relayouts>>
                                /\ lastFire' = fire
                           ELSE \* line 259: Plotly.relayout(graphDiv, update); the
                                \* event it emits carries the keys of update
                                /\ yRange' = [yRange EXCEPT ![name] = PaddedLogRange(priceRange)]
                                /\ events' = <<[data |-> RelayoutEventData(name, PaddedLogRange(priceRange)),
                                                by |-> "program"]>>
                                /\ relayouts' = relayouts + 1
                                /\ lastFire' = [fire EXCEPT !.wrote = {name}]
    /\ UNCHANGED <<page, traces, axisVisible, xaxisRange, relayoutTimer, nextTimer,
                   userEvents>>
    /\ UNCHANGED dataVars

----------------------------------------------------------------------------
(* Specifications *)

Init == DataInit /\ ChartIdle

Next ==
    \/ FetchPrimary
    \/ FetchFallback
    \/ ReturnEmpty
    \/ Clean
    \/ Annotate
    \/ ModelFixed
    \/ ModelRegression

Spec == Init /\ [][Next]_vars

NextChart ==
    \/ PressBTC
    \/ PressETH
    \/ GestureX
    \/ GestureY
    \/ OnRelayout
    \/ TimerFire

SpecChart == ChartInit /\ [][NextChart]_vars

----------------------------------------------------------------------------
(* Properties of get_data, checked under Spec *)

Returned == pc = "done" /\ outcome = "returned"
ValidPrice(r) == r.Close.kind = "num" /\ r.Close.v > 0
\* indices of the cleaned series whose age is positive
AgedIndices == {i \in 1..Len(cleaned) : DaysOf(cleaned[i].ts) > 0}
RowsOf(d) == {d[k] : k \in 1..Len(d)}

\* C1: the returned series has an entry for every cleaned index with
\* age_days > 0; geo_mean_200 is defined exactly at the cleaned indices
\* i >= 199 (0-indexed, pos >= W here) and is absent, the entry being kept,
\* at every earlier index.
C1_GeoMeanAbsentNotRemoved ==
    (Returned /\ Len(cleaned) > 0) =>
        /\ {r.pos : r \in RowsOf(df)} = AgedIndices
        /\ \A r \in RowsOf(df) : Defined(r.GeoMean) <=> r.pos >= W
        /\ \A r \in RowsOf(df) : r.pos < W => IsNaN(r.GeoMean)

\* C2: with exactly 199 entries after cleaning, for either ticker, get_data
\* returns normally and no entry has geo_mean_200 or deviation_index defined.
C2_Exactly199NoCrash ==
    (pc = "done" /\ Len(cleaned) = W - 1) =>
        /\ outcome = "returned"
        /\ \A r \in RowsOf(df) : ~Defined(r.GeoMean) /\ ~Defined(r.AHR999)

\* C3: for the regression profile, fewer than 11 points handed to the
\* regression means no fit is used, fair_value and deviation_index are absent
\* everywhere, the entries are still returned; a fit is only ever computed
\* from 11 or more points.  (The series with no point at all is the case of
\* C5 and is left to it.)
C3_RegressionNeedsElevenPoints ==
    /\ (pc = "done" /\ ~IsBTCTicker(ticker) /\ fit.n > 0 /\ fit.n < 11) =>
          /\ fit.kind # "fit"
          /\ outcome = "returned"
          /\ Len(df) = fit.n
          /\ \A r \in RowsOf(df) : ~Defined(r.Predicted) /\ ~Defined(r.AHR999)
    /\ (fit.kind = "fit" => fit.n >= 11)

\* C4: the series the pipeline computes on has strictly increasing
\* timestamps, holds only the last occurrence of a duplicated timestamp, and
\* has close_price > 0 at every entry.
C4_CleanedSortedDeduplicatedPositive ==
    pc \in {"rolling", "model", "done"} =>
        /\ \A i, j \in 1..Len(cleaned) : i < j => cleaned[i].ts < cleaned[j].ts
        /\ \A i \in 1..Len(cleaned) : ValidPrice(cleaned[i])
        /\ {<<r.ts, r.Close>> : r \in RowsOf(cleaned)} =
           {<<raw[i].ts, raw[i].Close>> :
               i \in {k \in 1..Len(raw) :
                        /\ ValidPrice(raw[k])
                        /\ ~\E j \in (k + 1)..Len(raw) :
                               raw[j].ts = raw[k].ts /\ ValidPrice(raw[j])}}

\* C5: when nothing is left after cleaning (no source delivered data, or no
\* price is a positive number), get_data ends in its failure outcome, the
\* empty result, for both tickers: no exception escapes and no rows come back.
C5_EmptyIsExplicitFailure ==
    (pc = "done" /\ Len(cleaned) = 0) => (outcome = "returned" /\ Len(df) = 0)

\* C6: for the regression profile the least-squares line is fitted on exactly
\* the cleaned entries with age_days > 0, the first 199 included.
C6_RegressionOverFullSeries ==
    (pc = "done" /\ ~IsBTCTicker(ticker) /\ fit.kind = "fit") => fit.points = AgedIndices

\* C7: the sources are requested in a fixed order; the fallback is requested
\* only after the primary raised or was empty, never after it yielded data;
\* the rows of df all come from the one source requested last; when both
\* sources fail or are empty get_data returns an empty frame and does not raise.
C7_SourcesInOrder ==
    /\ requests \in {<<>>, <<"primary">>, <<"primary", "fallback">>}
    /\ (pc = "fallback" \/ fallbackOut # "none") => primaryOut \in {"raise", "empty"}
    /\ primaryOut = "data" => requests = <<"primary">>
    /\ \A r \in RowsOf(df) : r.origin = requests[Len(requests)]
    /\ (pc = "done" /\ primaryOut \in {"raise", "empty"} /\ fallbackOut \in {"raise", "empty"})
          => (outcome = "returned" /\ Len(df) = 0)

\* C7, reached: the primary failed, the fallback was requested after it and
\* its rows are what get_data returned.
C7_FallbackUsed ==
    /\ Returned
    /\ requests = <<"primary", "fallback">>
    /\ primaryOut \in {"raise", "empty"}
    /\ Len(df) > 0
    /\ \A r \in RowsOf(df) : r.origin = "fallback"

----------------------------------------------------------------------------
(* Properties of the page, checked under SpecChart *)

\* C8: the event emitted by the handler's own Plotly.relayout is one the
\* guard of line 183 ignores, so after one user gesture at most one
\* programmatic relayout is issued.
C8_OwnRelayoutIgnored ==
    /\ \A i \in 1..Len(events) : events[i].by = "program" => YGuard(events[i])
    /\ relayouts <= 1

\* C9: at most one timer is pending at any time, and a burst of X-axis
\* events, each arriving before the previous event's timer fired, is followed
\* by exactly one autoscale computation: the callback set by the last event
\* of the burst, with the X range captured then, and no other until the user
\* acts again.
C9_OneComputationPerBurst ==
    /\ Cardinality(timers) <= 1
    /\ \A tm \in timers : tm.id = relayoutTimer
    /\ lastFire.id # 0 => lastFire.newest
    /\ userComputations <= 1

\* The debounce taken by itself: counting from the last event that set a
\* timer, whoever emitted it, one callback is pending or has run once, and
\* the callback that runs is the newest one.
DebounceInvariant ==
    /\ Cardinality(timers) <= 1
    /\ relayoutTimer # 0 => Cardinality(timers) + computations = 1
    /\ \A tm \in timers : tm.id = relayoutTimer
    /\ lastFire.id # 0 => lastFire.newest

\* A burst of two or more events was followed by one callback.
DebounceReached ==
    /\ lastFire.id # 0
    /\ lastFire.burst >= 2
    /\ lastFire.newest
    /\ computations = 1
    /\ timers = {}

\* C10: whenever the chart is rendered, exactly one asset's three traces are
\* shown, with exactly its two Y axes; every autoscale computation reads
\* traces that are in the figure and writes only the price axis of the asset
\* shown when the timer fires.
C10_OneAssetShown ==
    page = "chart" =>
        /\ Cardinality(VisibleAssets(traces)) = 1
        /\ \A a \in VisibleAssets(traces) :
              /\ ShownTraces(traces) = (IF a = "BTC" THEN 1..3 ELSE 4..6)
              /\ {y \in YAxes : axisVisible[y]} = AxesOf(a)
        /\ ~jsError
        /\ lastFire.read \subseteq 1..Len(traces)
        /\ lastFire.wrote \subseteq {PriceAxisOf(a) : a \in lastFire.visibleAssets}

====
